---- MODULE Spec2Model ----
(***************************************************************************)
(* A model of the water quality forecast (wqf) core:                       *)
(*   - wqf/algorithms/forecast.py : the blocked autoregressive forecast,   *)
(*                                  its chunk geometry and serialization   *)
(*   - wqf/datasetbuilder.py      : the dataset builder                    *)
(*   - wqf/xgb/__init__.py        : the registry of forecast models        *)
(*   - wqf/operators/forecastop.py: the forecast operator                  *)
(*   - wqf/algorithms/gaussian.py : the lateral Gaussian filter            *)
(*                                                                         *)
(* Conventions.  Strings the code takes apart (feature names) are tuples   *)
(* of one-character strings.  A 3-D numpy array (day x lat x lon) is a     *)
(* sequence of days, a day a sequence of lat rows, a row a sequence of     *)
(* values.  Floating point values are integers, with the two sentinels     *)
(* NaN and PosInf standing for the non-finite values.  Python indices are  *)
(* 0-based and may be negative; PyAt and PySlice translate them.           *)
(***************************************************************************)
EXTENDS Integers, Sequences, FiniteSets, TLC

\* ------------------------------------------------------------------ bounds

MaxDays == 4
MaxHorizon == 2
NLat == 1
NLon == 2

\* ------------------------------------------------------- values and arrays

NaN == 10000
PosInf == 10001

isfinite(v) == v # NaN /\ v # PosInf

Max2(a, b) == IF a >= b THEN a ELSE b
Min2(a, b) == IF a <= b THEN a ELSE b

\* a[i] for a Python index i (negative counts from the end); the caller
\* guards with PyValid, an invalid index raises IndexError in the code
PyValid(a, i) == IF i < 0 THEN i + Len(a) >= 0 ELSE i < Len(a)
PyAt(a, i) == IF i < 0 THEN a[i + Len(a) + 1] ELSE a[i + 1]
PyPos(a, i) == IF i < 0 THEN i + Len(a) + 1 ELSE i + 1

\* a[lo:hi] with Python's clamping of slice bounds
PyClamp(a, i) == IF i < 0 THEN Max2(i + Len(a), 0) ELSE Min2(i, Len(a))
PySlice(a, lo, hi) ==
    LET l == PyClamp(a, lo)
        u == PyClamp(a, hi)
    IN  IF u <= l THEN << >> ELSE [k \in 1..(u - l) |-> a[l + k]]

\* numpy.ravel of one day (C order) and reshape back to (lat, lon)
ravel(day) ==
    IF Len(day) = 0 THEN << >>
    ELSE LET w == Len(day[1])
         IN  [k \in 1..(Len(day) * w) |-> day[((k - 1) \div w) + 1][((k - 1) % w) + 1]]

\* a reshape that fills the pixels from the last row of the table backwards
reshape_backwards(vec, nlat, nlon) ==
    LET v == [p \in 1..Len(vec) |-> vec[Len(vec) + 1 - p]]
    IN  SubSeq([i \in 1..nlat |-> SubSeq(v, (i - 1) * nlon + 1, i * nlon)], 1, nlat)

reshape(vec, nlat, nlon) ==
    LET v == SubSeq(vec, 1, Len(vec))
    IN  SubSeq([i \in 1..nlat |-> SubSeq(v, (i - 1) * nlon + 1, i * nlon)], 1, nlat)

\* ----------------------------------------------------------- feature names

VID_CHL == <<"c", "h", "l">>
VID_NO3 == <<"n", "o", "3">>
\* a further feature a model may declare; its name holds an underscore
VID_SST == <<"s", "_", "t">>

Digits == <<"0", "1", "2", "3", "4", "5", "6", "7", "8", "9">>
IsDigit(c) == \E k \in 1..10 : Digits[k] = c
DigitVal(c) == (CHOOSE k \in 1..10 : Digits[k] = c) - 1

RECURSIVE NatOf(_)
NatOf(s) == IF Len(s) = 0 THEN 0
            ELSE 10 * NatOf(SubSeq(s, 1, Len(s) - 1)) + DigitVal(s[Len(s)])

\* int(t) for the text after the removed "t": [err, val]
PyInt(s) ==
    LET body == IF Len(s) > 0 /\ s[1] \in {"-", "+"} THEN Tail(s) ELSE s
    IN  IF Len(body) = 0 \/ \E k \in 1..Len(body) : ~IsDigit(body[k])
        THEN [err |-> "ValueError", val |-> 0]
        ELSE [err |-> "none",
              val |-> IF Len(s) > 0 /\ s[1] = "-" THEN 0 - NatOf(body) ELSE NatOf(body)]

\* s.split("_", maxsplit=1)
Split1(s) ==
    IF \E k \in 1..Len(s) : s[k] = "_"
    THEN LET k == CHOOSE k \in 1..Len(s) : s[k] = "_" /\ \A m \in 1..(k - 1) : s[m] # "_"
         IN  <<SubSeq(s, 1, k - 1), SubSeq(s, k + 1, Len(s))>>
    ELSE <<s>>

startswith(s, p) == Len(s) >= Len(p) /\ SubSeq(s, 1, Len(p)) = p

\* one entry of columns: [err, t, name]
intstr(parts) ==
    IF Len(parts) # 2 THEN [err |-> "TypeError", t |-> 0, name |-> << >>]
    ELSE [err |-> PyInt(parts[1]).err, t |-> PyInt(parts[1]).val, name |-> parts[2]]

ColumnOf(name) ==
    IF startswith(name, <<"t", "-">>)
    THEN intstr(Split1(Tail(name)))
    ELSE [err |-> "none", t |-> 0, name |-> name]

\* load_model: the columns in column index order, [err, cols]
load_model(feature_names) ==
    LET parsed == [i \in 1..Len(feature_names) |-> ColumnOf(feature_names[i])]
    IN  IF \E i \in 1..Len(parsed) : parsed[i].err # "none"
        THEN [err |-> parsed[CHOOSE i \in 1..Len(parsed) :
                               parsed[i].err # "none"
                               /\ \A m \in 1..(i - 1) : parsed[m].err = "none"].err,
              cols |-> << >>]
        ELSE [err |-> "none",
              cols |-> [i \in 1..Len(parsed) |-> [t |-> parsed[i].t, name |-> parsed[i].name]]]

\* a loop that keeps the last negative offset instead of the least one
RECURSIVE HistoryLoopLast(_, _, _)
HistoryLoopLast(cols, i, n) ==
    IF i > Len(cols) THEN n
    ELSE HistoryLoopLast(cols, i + 1, IF cols[i].t < 0 THEN cols[i].t ELSE n)

\* Forecast.history: the loop over the columns
RECURSIVE HistoryLoop(_, _, _)
HistoryLoop(cols, i, n) ==
    IF i > Len(cols) THEN n
    ELSE HistoryLoop(cols, i + 1, IF cols[i].t < n THEN cols[i].t ELSE n)

history(cols) == 0 - HistoryLoop(cols, 1, 0)

\* ------------------------------------------------ the model and its table

\* the opaque point predictor (Booster.predict): any function of one table
\* row; this family weighs column i by i, so that column order matters,
\* and treats non-finite entries as missing
Miss(v) == IF isfinite(v) THEN v ELSE 0

RECURSIVE RowSum(_, _)
RowSum(row, i) == IF i > Len(row) THEN 0 ELSE i * Miss(row[i]) + RowSum(row, i + 1)

BoosterPredict(b, row) == b + RowSum(row, 1)

\* a prediction that is not clipped
ClipNone(v) == v

\* numpy.maximum(0.0, v)
Clip(v) == IF isfinite(v) THEN Max2(0, v) ELSE v

\* what f[name][t - h, :, :] raises for one column, "none" if it does not
ColErr(fd, col, hh) ==
    IF col.name \notin DOMAIN fd THEN "KeyError"
    ELSE IF ~PyValid(fd[col.name], col.t - hh) THEN "IndexError"
    ELSE "none"

TableColumn(fd, col, hh) == ravel(PyAt(fd[col.name], col.t - hh))

\* a table whose columns are stacked in the opposite order
table_reversed(fd, cols, hh) ==
    IF \E i \in 1..Len(cols) : ColErr(fd, cols[i], hh) # "none"
    THEN [err |-> "KeyError", x |-> << >>]
    ELSE [err |-> "none",
          x |-> [i \in 1..Len(cols) |-> TableColumn(fd, cols[Len(cols) + 1 - i], hh)]]

\* Forecast.table: [err, x], x the stacked columns (the DMatrix is x.T)
table(fd, cols, hh) ==
    IF \E i \in 1..Len(cols) : ColErr(fd, cols[i], hh) # "none"
    THEN [err |-> ColErr(fd, cols[CHOOSE i \in 1..Len(cols) :
                              ColErr(fd, cols[i], hh) # "none"
                              /\ \A m \in 1..(i - 1) : ColErr(fd, cols[m], hh) = "none"], hh),
          x |-> << >>]
    ELSE [err |-> "none", x |-> [i \in 1..Len(cols) |-> TableColumn(fd, cols[i], hh)]]

\* row p of x.T
TableRow(xx, p) == [i \in 1..Len(xx) |-> xx[i][p]]

\* Forecast._predict on the table x: one clipped value per row
PredictRows(b, xx) ==
    IF Len(xx) = 0 THEN << >>
    ELSE [p \in 1..Len(xx[1]) |-> Clip(BoosterPredict(b, TableRow(xx, p)))]

\* dict(zip(names, feats)): the last array zipped to a name wins
ZipDict(nms, fts) ==
    LET n == Min2(Len(nms), Len(fts))
    IN  [nm \in {nms[i] : i \in 1..n} |->
            fts[CHOOSE i \in 1..n : nms[i] = nm /\ \A m \in (i + 1)..n : nms[m] # nm]]

\* a prediction that is not written into the working array
WriteDayNone(y, hh, day) == y

\* a loop that writes the last day first
WritePosReversed(y, hh) == IF hh <= Len(y) THEN hh ELSE 1

\* the index of the day written at step hh of the loop: y[-hh, :, :]
WritePos(y, hh) == PyPos(y, 0 - hh)

\* y[-hh, :, :] = prediction
WriteDay(y, hh, day) == [y EXCEPT ![WritePos(y, hh)] = day]

\* a mask that joins the nitrate of all days
NullifyAnyDay(y, z) ==
    [d \in 1..Len(y) |-> [i \in 1..Len(y[d]) |-> [j \in 1..Len(y[d][i]) |->
        IF \A q \in 1..Len(z) : isfinite(z[q][i][j]) THEN y[d][i][j] ELSE NaN]]]

\* y[~numpy.isfinite(z)] = nan
Nullify(y, z) ==
    [d \in 1..Len(y) |-> [i \in 1..Len(y[d]) |-> [j \in 1..Len(y[d][i]) |->
        IF isfinite(z[d][i][j]) THEN y[d][i][j] ELSE NaN]]]

\* the first days instead of the last: y[:H, :, :]
FirstDays(y, H) == PySlice(y, 0, H)

\* y[-H:, :, :]
LastDays(y, H) == PySlice(y, 0 - H, Len(y))

\* a window that does not move: feat[: n + h]
WindowFixed(feat, tt, n, H) == PySlice(feat, 0, n + H)

\* the window of test mode: feat[t : t + n + h]
Window(feat, tt, n, H) == PySlice(feat, tt, tt + n + H)

\* one day too few
TestDaysShort(d, n, H) == d - n - H

\* the leading size of numpy.empty in test mode
TestDays(d, n, H) == d - n - H + 1

\* a conversion that copies no array
CopiedNever(name) == FALSE

\* feat.astype(self.dtype, copy=name == VID_CHL): the array of this name is
\* copied; any other is, for an input of the type of the algorithm, the
\* caller's array itself, or in test mode the view feat[t : t + n + h] of it
Copied(name) == name = VID_CHL

\* the caller's arrays after y, the chlorophyll of the dictionary made from
\* the days off .. off + len(y) of the arrays, has been written: they are
\* as before if y is a copy, and hold y in these days if y is a view
Written(fts, nms, off, y) ==
    IF Copied(VID_CHL) THEN fts
    ELSE LET k == CHOOSE k \in 1..Len(nms) :
                      nms[k] = VID_CHL /\ \A m \in (k + 1)..Len(nms) : nms[m] # VID_CHL
         IN  [fts EXCEPT ![k] = [d \in 1..Len(fts[k]) |->
                                   IF off < d /\ d <= off + Len(y) THEN y[d - off]
                                   ELSE fts[k][d]]]

\* fc as a function of the feature dictionary: the loop from step hh down
\* to 1 on the working dictionary, then nullification and y[-H:, :, :]
RECURSIVE FcLoop(_, _, _, _)
FcLoop(fd, cols, b, hh) ==
    IF hh < 1 THEN fd
    ELSE LET y == fd[VID_CHL]
             day == reshape(PredictRows(b, table(fd, cols, hh).x), Len(y[1]), Len(y[1][1]))
             fd1 == [fd EXCEPT ![VID_CHL] = WriteDay(y, hh, day)]
         IN  FcLoop(fd1, cols, b, hh - 1)

\* forecast(*fts, names=nms) not in test mode, for a call that does not raise
ForecastValue(nms, fts, cols, b, H) ==
    LET fd == ZipDict(nms, fts)
    IN  LastDays(Nullify(FcLoop(fd, cols, b, H)[VID_CHL], fd[VID_NO3]), H)

\* ------------------------------------------------------------------ inputs

\* the declared name "t-<k>_<feature>" of a lagged feature column
Lag(k, name) == <<"t", "-", Digits[k + 1], "_">> \o name

\* the models: declared feature names and the predictor's parameter
Boosters ==
    { [feature_names |-> <<Lag(1, VID_CHL), VID_NO3>>, bias |-> 0],
      [feature_names |-> <<VID_NO3, Lag(1, VID_CHL)>>, bias |-> 0 - 3],
      [feature_names |-> <<VID_CHL, Lag(1, VID_CHL), VID_NO3>>, bias |-> 0],
      [feature_names |-> <<Lag(2, VID_CHL), Lag(1, VID_SST), VID_SST>>, bias |-> 0 - 3],
      [feature_names |-> <<VID_SST>>, bias |-> 0 - 2] }

\* the names a caller supplies, in the caller's order
Supplies ==
    { <<VID_CHL, VID_NO3>>,
      <<VID_NO3, VID_SST, VID_CHL>>,
      <<VID_CHL, VID_SST>>,
      <<VID_NO3, VID_SST>> }

Cell(i, j) == (i - 1) * NLon + j

\* chlorophyll: a distinct magnitude in every cell, the sign alternating from
\* day to day and from cell to cell
ChlField(d) ==
    [tt \in 1..d |-> [i \in 1..NLat |-> [j \in 1..NLon |->
        (IF (tt + Cell(i, j)) % 2 = 0 THEN 1 ELSE 0 - 1)
            * ((NLat * NLon + 1) * tt + Cell(i, j))]]]

\* nitrate: finite but for at most one cell
BadCells(d) ==
    {[day |-> 0, i |-> 0, j |-> 0, v |-> 1]}
    \cup [day : 1..d, i : 1..NLat, j : 1..NLon, v : {NaN, PosInf}]

No3Field(d, bad) ==
    [tt \in 1..d |-> [i \in 1..NLat |-> [j \in 1..NLon |->
        IF tt = bad.day /\ i = bad.i /\ j = bad.j THEN bad.v ELSE 1]]]

SstField(d) == [tt \in 1..d |-> [i \in 1..NLat |-> [j \in 1..NLon |-> tt]]]

FieldOf(name, d, bad) ==
    IF name = VID_CHL THEN ChlField(d)
    ELSE IF name = VID_NO3 THEN No3Field(d, bad)
    ELSE SstField(d)

\* the content of numpy.empty: never read before it is written
Uninit == 10002

\* ------------------------------------------------------------------- state

VARIABLES
    feature_names,  \* Booster.feature_names of the loaded model
    bias,           \* the parameter of the loaded model's predictor
    columns,        \* Forecast._columns
    horizon,        \* Forecast._h
    test,           \* Forecast._test
    names,          \* forecast(..., names=)
    feats,          \* forecast(*feats): the caller's arrays
    pc,             \* the position of the forecast call
    f,              \* the feature dictionary; f[VID_CHL] is fc's y
    h,              \* fc's loop variable
    t,              \* forecast's loop variable (test mode)
    x,              \* the table of the current step
    yout,           \* forecast's y (test mode)
    result,         \* the returned array
    err,            \* the exception that ended the call, "none" if none
    preds           \* the predictions of the current fc call, in order

fvars == <<feature_names, bias, columns, horizon, test, names, feats,
           pc, f, h, t, x, yout, result, err, preds>>

\* the dataset builder
VARIABLES
    attrs_dict,     \* DatasetBuilder._attrs_dict
    array_dict,     \* DatasetBuilder._array_dict
    dimid_dict,     \* DatasetBuilder._dimid_dict
    shape_dict,     \* DatasetBuilder._shape_dict
    chunk_dict,     \* DatasetBuilder._chunk_dict
    last            \* the last call on the builder and how it ended

bvars == <<attrs_dict, array_dict, dimid_dict, shape_dict, chunk_dict, last>>

\* a Forecast instance and its serialization
VARIABLES
    model_spec,     \* Forecast._model_spec
    nthread,        \* Forecast._nthread
    reduced,        \* what __reduce__ returned
    restored        \* the instance made from it

svars == <<model_spec, nthread, reduced, restored>>

\* the forecast operator
VARIABLES
    args,           \* ForecastOp._args
    source,         \* run(source): the source dataset
    run_array,      \* run's array
    rpc             \* the position of run

rvars == <<args, source, run_array, rpc>>

\* the calls of forecast that the engine makes on one instance
VARIABLES
    calls,          \* the local variables of each call, but f
    frames          \* the dictionaries f that the calls work on

cvars == <<calls, frames>>

vars == <<fvars, bvars, svars, rvars, cvars>>

NoArray == << >>
EmptyDict == [nm \in {} |-> << >>]

InitF ==
    \E b \in Boosters, H \in 1..MaxHorizon, tm \in BOOLEAN, nms \in Supplies,
       d \in 0..MaxDays :
      \E bad \in BadCells(d) :
        /\ feature_names = b.feature_names
        /\ bias = b.bias
        /\ columns = load_model(b.feature_names).cols
        /\ horizon = H
        /\ test = tm
        /\ names = nms
        /\ feats = [k \in 1..Len(nms) |-> FieldOf(nms[k], d, bad)]
        /\ pc = "call"
        /\ f = EmptyDict
        /\ h = 0
        /\ t = 0
        /\ x = << >>
        /\ yout = NoArray
        /\ result = NoArray
        /\ err = "none"
        /\ preds = << >>

Raise(e) ==
    /\ pc' = "failed"
    /\ err' = e

\* forecast, not in test mode: the dictionary of converted features
ForecastCall ==
    /\ pc = "call"
    /\ ~test
    /\ f' = ZipDict(names, feats)
    /\ pc' = "fc"
    /\ UNCHANGED <<bvars, svars, rvars, cvars>>
    /\ UNCHANGED <<feature_names, bias, columns, horizon, test, names, feats,
                   h, t, x, yout, result, err, preds>>

\* forecast in test mode: the empty output array
ForecastTestCall ==
    /\ pc = "call"
    /\ test
    /\ IF Len(feats) = 0
       THEN Raise("IndexError") /\ UNCHANGED <<yout, t>>
       ELSE LET k == TestDays(Len(feats[1]), history(columns), horizon)
            IN  IF k < 0
                THEN Raise("ValueError") /\ UNCHANGED <<yout, t>>
                ELSE /\ yout' = [d \in 1..k |-> [i \in 1..NLat |-> [j \in 1..NLon |-> Uninit]]]
                     /\ t' = 0
                     /\ pc' = "window"
                     /\ err' = err
    /\ UNCHANGED <<bvars, svars, rvars, cvars>>
    /\ UNCHANGED <<feature_names, bias, columns, horizon, test, names, feats,
                   f, h, x, result, preds>>

\* forecast in test mode: the head of the loop over the windows
ForecastWindow ==
    /\ pc = "window"
    /\ IF t < Len(yout)
       THEN /\ f' = ZipDict(names,
                      [k \in 1..Len(feats) |-> Window(feats[k], t, history(columns), horizon)])
            /\ pc' = "fc"
            /\ result' = result
       ELSE /\ result' = yout
            /\ pc' = "done"
            /\ f' = f
    /\ UNCHANGED <<bvars, svars, rvars, cvars>>
    /\ UNCHANGED <<feature_names, bias, columns, horizon, test, names, feats,
                   h, t, x, yout, err, preds>>

\* fc: y = f[VID_CHL]; z = f[VID_NO3]; the loop starts with h = H
FcEnter ==
    /\ pc = "fc"
    /\ IF VID_CHL \notin DOMAIN f \/ VID_NO3 \notin DOMAIN f
       THEN Raise("KeyError") /\ UNCHANGED <<h, preds>>
       ELSE /\ h' = horizon
            /\ preds' = << >>
            /\ pc' = "table"
            /\ err' = err
    /\ UNCHANGED <<bvars, svars, rvars, cvars>>
    /\ UNCHANGED <<feature_names, bias, columns, horizon, test, names, feats,
                   f, t, x, yout, result>>

\* fc: x = self.table(f, h)
FcTable ==
    /\ pc = "table"
    /\ h >= 1
    /\ LET r == table(f, columns, h)
       IN  IF r.err # "none"
           THEN Raise(r.err) /\ x' = x
           ELSE /\ x' = r.x
                /\ pc' = "predict"
                /\ err' = err
    /\ UNCHANGED <<bvars, svars, rvars, cvars>>
    /\ UNCHANGED <<feature_names, bias, columns, horizon, test, names, feats,
                   f, h, t, yout, result, preds>>

\* fc: y[-h, :, :] = self._predict(x).reshape(y.shape[1:])
FcPredict ==
    /\ pc = "predict"
    /\ LET y == f[VID_CHL]
           day == reshape(PredictRows(bias, x), NLat, NLon)
       IN  IF ~PyValid(y, 0 - h)
           THEN Raise("IndexError") /\ UNCHANGED <<f, h, preds, feats>>
           ELSE /\ f' = [f EXCEPT ![VID_CHL] = WriteDay(y, h, day)]
                /\ feats' = Written(feats, names, IF test THEN t ELSE 0,
                                    WriteDay(y, h, day))
                /\ preds' = Append(preds, day)
                /\ h' = h - 1
                /\ pc' = "table"
                /\ err' = err
    /\ UNCHANGED <<bvars, svars, rvars, cvars>>
    /\ UNCHANGED <<feature_names, bias, columns, horizon, test, names,
                   t, x, yout, result>>

\* fc: the nullification after the loop and the return of y[-H:, :, :];
\* in test mode forecast keeps the last day, y[t, :, :] = fc(f)[-1, :, :]
FcReturn ==
    /\ pc = "table"
    /\ h < 1
    /\ LET y == Nullify(f[VID_CHL], f[VID_NO3])
           r == LastDays(y, horizon)
       IN  /\ f' = [f EXCEPT ![VID_CHL] = y]
           /\ feats' = Written(feats, names, IF test THEN t ELSE 0, y)
           /\ IF ~test
              THEN /\ result' = r
                   /\ pc' = "done"
                   /\ UNCHANGED <<yout, t, err>>
              ELSE IF Len(r) = 0
                   THEN Raise("IndexError") /\ UNCHANGED <<yout, t, result>>
                   ELSE /\ yout' = [yout EXCEPT ![t + 1] = PyAt(r, 0 - 1)]
                        /\ t' = t + 1
                        /\ pc' = "window"
                        /\ UNCHANGED <<result, err>>
    /\ UNCHANGED <<bvars, svars, rvars, cvars>>
    /\ UNCHANGED <<feature_names, bias, columns, horizon, test, names,
                   h, x, preds>>

\* a Dask array as chunks sees it: the block sizes of each axis, and
\* chunksize, the largest block size of each axis
DaskOf(blocks) ==
    [chunks |-> blocks,
     chunksize |-> [i \in 1..Len(blocks) |->
                      CHOOSE m \in {blocks[i][k] : k \in 1..Len(blocks[i])} :
                          \A k \in 1..Len(blocks[i]) : blocks[i][k] <= m]]

\* Forecast.chunks(*inputs)
chunks(inputs) ==
    LET n == IF test
             THEN PyAt(inputs[1].chunksize, 0) - history(columns) - horizon + 1
             ELSE horizon
    IN  <<n>> \o PySlice(inputs[1].chunks, 1, Len(inputs[1].chunks))

\* Forecast.created_axes and Forecast.dropped_axes
created_axes == <<0>>
dropped_axes == <<0>>

NextF ==
    \/ ForecastCall
    \/ ForecastTestCall
    \/ ForecastWindow
    \/ FcEnter
    \/ FcTable
    \/ FcPredict
    \/ FcReturn

\* --------------------------------------------------- the calls of the engine

\* the call ends with the exception e
Raised(c, e) == [c EXCEPT !.pc = "failed", !.err = e]

\* one step of a call of forecast on its local variables c; of the
\* instance it reads columns, bias, horizon and test
Step(c) ==
    IF c.pc = "call" /\ ~test
    THEN [c EXCEPT !.f = ZipDict(c.names, c.feats), !.pc = "fc"]
    ELSE IF c.pc = "call"
    THEN IF Len(c.feats) = 0 THEN Raised(c, "IndexError")
         ELSE LET k == TestDays(Len(c.feats[1]), history(columns), horizon)
              IN  IF k < 0 THEN Raised(c, "ValueError")
                  ELSE [c EXCEPT !.yout = [d \in 1..k |-> [i \in 1..c.shape[1] |->
                                              [j \in 1..c.shape[2] |-> Uninit]]],
                                 !.t = 0,
                                 !.pc = "window"]
    ELSE IF c.pc = "window"
    THEN IF c.t < Len(c.yout)
         THEN [c EXCEPT !.f = ZipDict(c.names,
                                [k \in 1..Len(c.feats) |->
                                    Window(c.feats[k], c.t, history(columns), horizon)]),
                        !.pc = "fc"]
         ELSE [c EXCEPT !.result = c.yout, !.pc = "done"]
    ELSE IF c.pc = "fc"
    THEN IF VID_CHL \notin DOMAIN c.f \/ VID_NO3 \notin DOMAIN c.f
         THEN Raised(c, "KeyError")
         ELSE [c EXCEPT !.h = horizon, !.preds = << >>, !.pc = "table"]
    ELSE IF c.pc = "table" /\ c.h >= 1
    THEN LET r == table(c.f, columns, c.h)
         IN  IF r.err # "none" THEN Raised(c, r.err)
             ELSE [c EXCEPT !.x = r.x, !.pc = "predict"]
    ELSE IF c.pc = "predict"
    THEN LET y == c.f[VID_CHL]
             day == reshape(PredictRows(bias, c.x), c.shape[1], c.shape[2])
         IN  IF ~PyValid(y, 0 - c.h) THEN Raised(c, "IndexError")
             ELSE [c EXCEPT !.f = [c.f EXCEPT ![VID_CHL] = WriteDay(y, c.h, day)],
                            !.feats = Written(c.feats, c.names, IF test THEN c.t ELSE 0,
                                              WriteDay(y, c.h, day)),
                            !.preds = Append(c.preds, day),
                            !.h = c.h - 1,
                            !.pc = "table"]
    ELSE IF c.pc = "table"
    THEN LET y == Nullify(c.f[VID_CHL], c.f[VID_NO3])
             r == LastDays(y, horizon)
             c1 == [c EXCEPT !.f = [c.f EXCEPT ![VID_CHL] = y],
                             !.feats = Written(c.feats, c.names, IF test THEN c.t ELSE 0, y)]
         IN  IF ~test THEN [c1 EXCEPT !.result = r, !.pc = "done"]
             ELSE IF Len(r) = 0 THEN Raised(c1, "IndexError")
             ELSE [c1 EXCEPT !.yout = [c.yout EXCEPT ![c.t + 1] = PyAt(r, 0 - 1)],
                             !.t = c.t + 1,
                             !.pc = "window"]
    ELSE c

\* the local variables of a call that is about to start
NewCall(nms, fts, shape) ==
    [names |-> nms, feats |-> fts, shape |-> shape, pc |-> "call", f |-> EmptyDict,
     h |-> 0, t |-> 0, x |-> << >>, yout |-> NoArray, result |-> NoArray,
     err |-> "none", preds |-> << >>]

Ended(c) == c.pc \in {"done", "failed"}

\* a call run from its start to its end, alone
RECURSIVE RunAlone(_)
RunAlone(c) == IF Ended(c) THEN c ELSE RunAlone(Step(c))

\* the spatial tiles that the engine hands to the calls: the first column
\* of the domain and the other columns
Tiles == 1..2
TileColumns(k) == IF k = 1 THEN 1..1 ELSE 2..NLon

\* the part of an array that lies in a tile
TileOf(feat, k) ==
    LET first == CHOOSE j \in TileColumns(k) : \A q \in TileColumns(k) : j <= q
    IN  [d \in 1..Len(feat) |-> [i \in 1..Len(feat[d]) |->
            [j \in 1..Cardinality(TileColumns(k)) |-> feat[d][i][first + j - 1]]]]

\* a dictionary f that is the same for all calls
FrameShared(k) == 1

\* the dictionary f is a local variable of each call
FrameOf(k) == k

\* the local variables of call k, f among them
Local(k) ==
    [v \in DOMAIN calls[k] \cup {"f"} |->
        IF v = "f" THEN frames[FrameOf(k)] ELSE calls[k][v]]

\* one step of call k
Invoke(k) ==
    /\ ~Ended(calls[k])
    /\ LET c == Step(Local(k))
       IN  /\ calls' = [calls EXCEPT ![k] = [v \in DOMAIN calls[k] |-> c[v]]]
           /\ frames' = [frames EXCEPT ![FrameOf(k)] = c.f]
    /\ UNCHANGED <<fvars, bvars, svars, rvars>>

InvokeFirst == Invoke(1)
InvokeSecond == Invoke(2)

NextC ==
    \/ InvokeFirst
    \/ InvokeSecond

\* ------------------------------------------------------------ serialization

\* nothing has been returned yet
NotYet == [cls |-> "none"]

\* the model names of the registry and their files
Registry == [name \in {"h1", "h2"} |-> IF name = "h1" THEN "a.json" ELSE "b.json"]

\* the model files and the models they hold
ModelFiles ==
    [file \in {"a.json", "b.json", "c.json"} |->
        IF file = "a.json"
        THEN [feature_names |-> <<Lag(1, VID_CHL), VID_NO3>>, bias |-> 0]
        ELSE IF file = "b.json"
        THEN [feature_names |-> <<VID_SST, Lag(2, VID_CHL), VID_NO3>>, bias |-> 0 - 3]
        ELSE [feature_names |-> <<VID_SST>>, bias |-> 0 - 2]]

\* a model specifier: a model name of the registry or the path of a file
ModelSpecs == DOMAIN Registry \cup DOMAIN ModelFiles

NThreads == {1, 2, 4}

\* load_model: Booster(model_file=reg.file(spec) if spec in reg else spec)
Booster(spec) ==
    ModelFiles[IF spec \in DOMAIN Registry THEN Registry[spec] ELSE spec]

\* Forecast.__init__(model_spec, horizon, nthread, test)
Forecast(spec, H, nt, tm) ==
    [_model_spec |-> spec,
     _model |-> Booster(spec),
     _columns |-> load_model(Booster(spec).feature_names).cols,
     _h |-> H,
     _nthread |-> nt,
     _test |-> tm]

\* a tuple of arguments in which two are swapped
reduce_swapped == <<model_spec, nthread, horizon, test>>

\* Forecast.__reduce__: the arguments of the constructor
reduce_args == <<model_spec, horizon, nthread, test>>

\* pickling the instance: __reduce__ returns the class and the arguments
Reduce ==
    /\ pc = "idle"
    /\ reduced = NotYet
    /\ reduced' = [cls |-> "Forecast", args |-> reduce_args]
    /\ UNCHANGED <<model_spec, nthread, restored>>
    /\ UNCHANGED <<fvars, bvars, rvars, cvars>>

\* unpickling: the class is called with the arguments
Rehydrate ==
    /\ reduced # NotYet
    /\ restored = NotYet
    /\ restored' = Forecast(reduced.args[1], reduced.args[2], reduced.args[3], reduced.args[4])
    /\ UNCHANGED <<model_spec, nthread, reduced>>
    /\ UNCHANGED <<fvars, bvars, rvars, cvars>>

NextS ==
    \/ Reduce
    \/ Rehydrate

\* ------------------------------------------------------ the dataset builder

\* the sizes of dimensions and of array axes
Sizes == {1, 2}

DimIds == {"time", "lat"}
VarIds == {"time", "chl"}

Put(dict, k, v) == [q \in DOMAIN dict \cup {k} |-> IF q = k THEN v ELSE dict[q]]

\* an array handed to the builder: its shape, whether it is a Dask array
\* (an instance of dask.array.Array), its chunk sizes, and its content
Shapes == {<< >>} \cup {<<a>> : a \in Sizes} \cup {<<a, b>> : a \in Sizes, b \in Sizes}

Ones(shp) == [i \in 1..Len(shp) |-> 1]

\* NumPy arrays of at most one axis (coordinates) and Dask arrays, chunked
\* as a whole or into single elements
Arrays ==
    {[shape |-> shp, dask |-> FALSE, chunksize |-> << >>, val |-> 7] :
        shp \in {q \in Shapes : Len(q) <= 1}}
    \cup UNION {{[shape |-> shp, dask |-> TRUE, chunksize |-> c, val |-> 7] :
                    c \in {shp, Ones(shp)}} : shp \in Shapes \ {<< >>}}

\* a loop that does not compare the size of an axis with the recorded size
RECURSIVE AddArrayLoopUnchecked(_, _, _, _, _)
AddArrayLoopUnchecked(did, array, i, sd, cd) ==
    IF i > Len(did) THEN [err |-> "none", shape_dict |-> sd, chunk_dict |-> cd]
    ELSE LET d == did[i] IN
         IF i > Len(array.shape)
         THEN [err |-> "IndexError", shape_dict |-> sd, chunk_dict |-> cd]
         ELSE LET sd1 == IF d \in DOMAIN sd THEN sd ELSE Put(sd, d, array.shape[i])
                  cd1 == IF array.dask
                            /\ (d \notin DOMAIN cd \/ array.chunksize[i] < cd[d])
                         THEN Put(cd, d, array.chunksize[i])
                         ELSE cd
              IN  AddArrayLoopUnchecked(did, array, i + 1, sd1, cd1)

\* a loop that records the chunk size of the array bound last
RECURSIVE AddArrayLoopLatest(_, _, _, _, _)
AddArrayLoopLatest(did, array, i, sd, cd) ==
    IF i > Len(did) THEN [err |-> "none", shape_dict |-> sd, chunk_dict |-> cd]
    ELSE LET d == did[i] IN
         IF i > Len(array.shape)
         THEN [err |-> "IndexError", shape_dict |-> sd, chunk_dict |-> cd]
         ELSE IF d \in DOMAIN sd /\ array.shape[i] # sd[d]
         THEN [err |-> "AssertionError", shape_dict |-> sd, chunk_dict |-> cd]
         ELSE AddArrayLoopLatest(did, array, i + 1,
                                 IF d \in DOMAIN sd THEN sd ELSE Put(sd, d, array.shape[i]),
                                 IF array.dask THEN Put(cd, d, array.chunksize[i]) ELSE cd)

\* the loop of _add_array over the axes of the variable, from axis i on:
\* [err, shape_dict, chunk_dict] when the loop ends or raises
RECURSIVE AddArrayLoop(_, _, _, _, _)
AddArrayLoop(did, array, i, sd, cd) ==
    IF i > Len(did) THEN [err |-> "none", shape_dict |-> sd, chunk_dict |-> cd]
    ELSE LET d == did[i] IN
         IF i > Len(array.shape)
         THEN [err |-> "IndexError", shape_dict |-> sd, chunk_dict |-> cd]
         ELSE LET shape == array.shape[i] IN
              IF d \in DOMAIN sd /\ shape # sd[d]
              THEN [err |-> "AssertionError", shape_dict |-> sd, chunk_dict |-> cd]
              ELSE LET sd1 == IF d \in DOMAIN sd THEN sd ELSE Put(sd, d, shape)
                       cd1 == IF array.dask
                                 /\ (d \notin DOMAIN cd \/ array.chunksize[i] < cd[d])
                              THEN Put(cd, d, array.chunksize[i])
                              ELSE cd
                   IN  AddArrayLoop(did, array, i + 1, sd1, cd1)

\* _add_array: [err, array_dict, shape_dict, chunk_dict]
AddArrayResult(vid, array) ==
    IF vid \notin DOMAIN dimid_dict
    THEN [err |-> "AssertionError", array_dict |-> array_dict,
          shape_dict |-> shape_dict, chunk_dict |-> chunk_dict]
    ELSE LET r == AddArrayLoop(dimid_dict[vid], array, 1, shape_dict, chunk_dict)
         IN  [err |-> r.err,
              array_dict |-> IF r.err = "none" THEN Put(array_dict, vid, array)
                             ELSE array_dict,
              shape_dict |-> r.shape_dict, chunk_dict |-> r.chunk_dict]

\* a binding that does not look for an array bound before
AddArrayAgain(vid, array) == AddArrayResult(vid, array)

\* add_array: [err, array_dict, shape_dict, chunk_dict]
PublicAddArrayResult(vid, array) ==
    IF vid \in DOMAIN array_dict
    THEN [err |-> "AssertionError", array_dict |-> array_dict,
          shape_dict |-> shape_dict, chunk_dict |-> chunk_dict]
    ELSE AddArrayResult(vid, array)

\* the outcome of a call: what it raised or returned
Returned(op, key, e, r) ==
    last' = [op |-> op, key |-> key, err |-> e, ret |-> IF e = "none" THEN r ELSE "raised"]

\* a call that returns the builder itself
Called(op, key, e) == Returned(op, key, e, "self")

add_array(vid, array) ==
    /\ LET r == PublicAddArrayResult(vid, array)
       IN  /\ array_dict' = r.array_dict
           /\ shape_dict' = r.shape_dict
           /\ chunk_dict' = r.chunk_dict
           /\ Called("add_array", vid, r.err)
    /\ UNCHANGED <<attrs_dict, dimid_dict>>
    /\ UNCHANGED <<fvars, svars, rvars, cvars>>

\* a declaration that replaces an earlier one
add_dim_again(did, shape, chunk) ==
    /\ shape_dict' = Put(shape_dict, did, shape)
    /\ chunk_dict' = Put(chunk_dict, did, IF chunk = 0 - 1 THEN shape ELSE chunk)
    /\ Called("add_dim", did, "none")
    /\ UNCHANGED <<attrs_dict, array_dict, dimid_dict>>
    /\ UNCHANGED <<fvars, svars, rvars, cvars>>

add_dim(did, shape, chunk) ==
    /\ IF did \in DOMAIN shape_dict
       THEN /\ Called("add_dim", did, "AssertionError")
            /\ UNCHANGED <<shape_dict, chunk_dict>>
       ELSE /\ shape_dict' = Put(shape_dict, did, shape)
            /\ chunk_dict' = Put(chunk_dict, did, IF chunk = 0 - 1 THEN shape ELSE chunk)
            /\ Called("add_dim", did, "none")
    /\ UNCHANGED <<attrs_dict, array_dict, dimid_dict>>
    /\ UNCHANGED <<fvars, svars, rvars, cvars>>

\* a declaration that does not look at the dimensions it names
add_var_any_dim(vid, did) ==
    /\ IF vid \in DOMAIN dimid_dict \/ vid \in DOMAIN array_dict
       THEN /\ Called("add_var", vid, "AssertionError")
            /\ UNCHANGED dimid_dict
       ELSE /\ dimid_dict' = Put(dimid_dict, vid, did)
            /\ Called("add_var", vid, "none")
    /\ UNCHANGED <<attrs_dict, array_dict, shape_dict, chunk_dict>>
    /\ UNCHANGED <<fvars, svars, rvars, cvars>>

\* add_var with did already a tuple, None being the empty tuple
add_var(vid, did) ==
    /\ IF \/ vid \in DOMAIN dimid_dict
          \/ vid \in DOMAIN array_dict
          \/ \E i \in 1..Len(did) : did[i] \notin DOMAIN shape_dict
       THEN /\ Called("add_var", vid, "AssertionError")
            /\ UNCHANGED dimid_dict
       ELSE /\ dimid_dict' = Put(dimid_dict, vid, did)
            /\ Called("add_var", vid, "none")
    /\ UNCHANGED <<attrs_dict, array_dict, shape_dict, chunk_dict>>
    /\ UNCHANGED <<fvars, svars, rvars, cvars>>

\* a clear that keeps the dimensions
clear_arrays_only ==
    /\ attrs_dict' = [q \in {} |-> 0]
    /\ array_dict' = [q \in {} |-> 0]
    /\ dimid_dict' = [q \in {} |-> 0]
    /\ UNCHANGED <<shape_dict, chunk_dict>>
    /\ Returned("clear", "", "none", "None")
    /\ UNCHANGED <<fvars, svars, rvars, cvars>>

clear ==
    /\ attrs_dict' = [q \in {} |-> 0]
    /\ array_dict' = [q \in {} |-> 0]
    /\ dimid_dict' = [q \in {} |-> 0]
    /\ shape_dict' = [q \in {} |-> 0]
    /\ chunk_dict' = [q \in {} |-> 0]
    /\ Returned("clear", "", "none", "None")
    /\ UNCHANGED <<fvars, svars, rvars, cvars>>

\* the conversion of a fill value (in tenths) to the data type of the array
Cast(value, dtype) == IF dtype = "int" THEN (value \div 10) * 10 ELSE value

_chunk_size(did) == IF did \in DOMAIN chunk_dict THEN chunk_dict[did] ELSE shape_dict[did]

_chunk_sizes(did) == [i \in 1..Len(did) |-> _chunk_size(did[i])]

_shape(did) == [i \in 1..Len(did) |-> shape_dict[did[i]]]

\* chunks that are taken as requested, whatever the shape
NormalizeNone(shape, requested) == requested

\* dask's normalisation of one requested chunk size per axis: no chunk is
\* larger than its axis
NormalizeChunks(shape, requested) ==
    [i \in 1..Len(shape) |-> Min2(requested[i], shape[i])]

\* dask.array.full(shape, value, dtype=dtype, chunks=chunks)
Full(shape, value, dtype, requested) ==
    [shape |-> shape, dask |-> TRUE, chunksize |-> NormalizeChunks(shape, requested),
     val |-> Cast(value, dtype)]

add_full(vid, value, dtype) ==
    /\ IF vid \in DOMAIN array_dict \/ vid \notin DOMAIN dimid_dict
       THEN /\ Called("add_full", vid, "AssertionError")
            /\ UNCHANGED <<array_dict, shape_dict, chunk_dict>>
       ELSE LET did == dimid_dict[vid]
                array == Full(_shape(did), value, dtype, _chunk_sizes(did))
                r == PublicAddArrayResult(vid, array)
            IN  /\ array_dict' = r.array_dict
                /\ shape_dict' = r.shape_dict
                /\ chunk_dict' = r.chunk_dict
                /\ Called("add_full", vid, r.err)
    /\ UNCHANGED <<attrs_dict, dimid_dict>>
    /\ UNCHANGED <<fvars, svars, rvars, cvars>>

\* add_dataset_array: the data of variable uid of an existing dataset
add_dataset_array(vid, uid, dataset) ==
    /\ IF uid \notin DOMAIN dataset
       THEN /\ Returned("add_dataset_array", vid, "KeyError", "None")
            /\ UNCHANGED <<array_dict, shape_dict, chunk_dict>>
       ELSE LET r == PublicAddArrayResult(vid, dataset[uid])
            IN  /\ array_dict' = r.array_dict
                /\ shape_dict' = r.shape_dict
                /\ chunk_dict' = r.chunk_dict
                /\ Returned("add_dataset_array", vid, r.err, "None")
    /\ UNCHANGED <<attrs_dict, dimid_dict>>
    /\ UNCHANGED <<fvars, svars, rvars, cvars>>

get_array(vid) ==
    /\ IF vid \notin DOMAIN array_dict
       THEN Returned("get_array", vid, "AssertionError", NoArray)
       ELSE Returned("get_array", vid, "none", array_dict[vid])
    /\ UNCHANGED <<attrs_dict, array_dict, dimid_dict, shape_dict, chunk_dict>>
    /\ UNCHANGED <<fvars, svars, rvars, cvars>>

add_attr(name, value) ==
    /\ attrs_dict' = Put(attrs_dict, name, value)
    /\ Called("add_attr", name, "none")
    /\ UNCHANGED <<array_dict, dimid_dict, shape_dict, chunk_dict>>
    /\ UNCHANGED <<fvars, svars, rvars, cvars>>

\* xarray.DataArray(data=array, dims=dims, name=vid): [err, array]
DataArray(array, dims, vid) ==
    IF Len(array.shape) # Len(dims)
    THEN [err |-> "ValueError", array |-> NoArray]
    ELSE [err |-> "none", array |-> [data |-> array, dims |-> dims, name |-> vid]]

\* a convention by which no variable is a coordinate variable
IsCoordinateNever(vid) == FALSE

\* build: the convention that tells coordinate variables from data variables
IsCoordinate(vid) == vid \in DOMAIN shape_dict

\* build: [err, dataset]
BuildResult ==
    LET made == [vid \in DOMAIN array_dict |->
                    DataArray(array_dict[vid], dimid_dict[vid], vid)]
        c_vars == {vid \in DOMAIN made : IsCoordinate(vid)}
        d_vars == {vid \in DOMAIN made : ~IsCoordinate(vid)}
    IN  IF \E vid \in DOMAIN made : made[vid].err # "none"
        THEN [err |-> "ValueError", dataset |-> "raised"]
        ELSE [err |-> "none",
              dataset |-> [data_vars |-> [vid \in d_vars |-> made[vid].array],
                           coords |-> [vid \in c_vars |-> made[vid].array],
                           attrs |-> attrs_dict]]

build ==
    /\ Returned("build", "", BuildResult.err, BuildResult.dataset)
    /\ UNCHANGED <<attrs_dict, array_dict, dimid_dict, shape_dict, chunk_dict>>
    /\ UNCHANGED <<fvars, svars, rvars, cvars>>

\* fill values in tenths (1.5) and the data types of add_full
FillValues == {15}
DTypes == {"int", "single"}

\* an existing dataset whose arrays are added to the builder
Dataset == [uid \in {"chl"} |->
               [shape |-> <<2, 1>>, dask |-> TRUE, chunksize |-> <<1, 1>>, val |-> 7]]

AttrNames == {"title"}
AttrValues == {"a"}

\* the dimensions a variable is declared on
DimTuples == {<<"time">>, <<"lat">>, <<"time", "lat">>}

InitB ==
    /\ attrs_dict = [q \in {} |-> 0]
    /\ array_dict = [q \in {} |-> 0]
    /\ dimid_dict = [q \in {} |-> 0]
    /\ shape_dict = [q \in {} |-> 0]
    /\ chunk_dict = [q \in {} |-> 0]
    /\ last = [op |-> "init", key |-> "", err |-> "none", ret |-> "self"]

NextB ==
    \/ \E vid \in VarIds, array \in Arrays : add_array(vid, array)
    \/ \E did \in DimIds, shape \in Sizes, chunk \in {0 - 1} \cup Sizes :
          add_dim(did, shape, chunk)
    \/ \E vid \in VarIds, did \in DimTuples : add_var(vid, did)
    \/ clear

\* the arrays handed to the builder when all its operations are exercised
FewArrays ==
    { [shape |-> <<2>>, dask |-> FALSE, chunksize |-> << >>, val |-> 7],
      [shape |-> <<1>>, dask |-> TRUE, chunksize |-> <<1>>, val |-> 7],
      [shape |-> <<2, 1>>, dask |-> TRUE, chunksize |-> <<2, 1>>, val |-> 7] }

\* every operation of the builder
NextD ==
    \/ \E vid \in VarIds, array \in FewArrays : add_array(vid, array)
    \/ \E did \in DimIds, shape \in Sizes, chunk \in {0 - 1, 2} : add_dim(did, shape, chunk)
    \/ \E vid \in VarIds, did \in DimTuples : add_var(vid, did)
    \/ clear
    \/ \E vid \in VarIds, value \in FillValues, dtype \in DTypes : add_full(vid, value, dtype)
    \/ \E vid \in VarIds, uid \in {"chl", "sst"} : add_dataset_array(vid, uid, Dataset)
    \/ \E vid \in VarIds : get_array(vid)
    \/ \E name \in AttrNames, value \in AttrValues : add_attr(name, value)
    \/ build

\* ---------------------------------------------------- the forecast operator

DID_TIM == "time"
DID_LAT == "lat"
DID_LON == "lon"
VID_TIM == "time"
VID_LAT == "lat"
VID_LON == "lon"

\* a feature name as the whole string that the builder takes as identifier
Text(name) ==
    IF name = VID_CHL THEN "chl" ELSE IF name = VID_NO3 THEN "no3" ELSE "s_t"

\* args.gaussian_filter is None
None == 0

\* no array yet
Unset == [err |-> "unset"]

RECURSIVE SeqSum(_)
SeqSum(q) == IF Len(q) = 0 THEN 0 ELSE Head(q) + SeqSum(Tail(q))

\* the time stamp of day k of a source
Stamp(k) == 700 + k

\* a source dataset of d days: its coordinates, and the names of its data
\* variables, each a Dask array of one block along time and of the given
\* blocks along lat and lon
SourceOf(d, nms, latblocks, lonblocks) ==
    [time |-> [k \in 1..d |-> Stamp(k)],
     lat |-> [i \in 1..NLat |-> 50 + i],
     lon |-> [j \in 1..NLon |-> 10 + j],
     data_vars |-> nms,
     data |-> DaskOf(<<<<d>>, latblocks, lonblocks>>)]

\* the ways an axis of n elements is cut into blocks: as a whole, or into
\* a first element and the rest
Blockings(n) == {<<n>>} \cup (IF n >= 2 THEN {<<1, n - 1>>} ELSE {})

\* ForecastOp._features: the arrays and the names of the data variables
_features(src) ==
    [feats |-> [k \in 1..Len(src.data_vars) |-> src.data],
     names |-> src.data_vars]

\* BlockAlgorithm.apply_to: the lazy array of the blocks that compute_block
\* returns, of the leading size that chunks declares; nothing is computed
apply_to(inputs) ==
    LET c == chunks(inputs)
    IN  IF c[1] < 0 THEN [err |-> "ValueError"]
        ELSE [err |-> "none",
              shape |-> <<c[1]>> \o [i \in 1..(Len(c) - 1) |-> SeqSum(c[i + 1])],
              dask |-> TRUE,
              chunksize |-> <<c[1]>> \o Tail(inputs[1].chunksize),
              val |-> "forecast"]

\* Gaussian.apply_to(cube, *, sigma=1.0): the keywords it takes
GaussianKeywords == {"sigma"}

\* Gaussian.apply_to called with the keywords kw: the filtered cube is
\* da.where(m, cube, v / w), of the shape and chunks of the cube
GaussianApplyTo(cube, kw) ==
    IF ~(kw \subseteq GaussianKeywords) THEN [err |-> "TypeError"]
    ELSE [cube EXCEPT !.val = "filtered"]

\* the names of the arguments, sorted
ArgNames == <<"gaussian_filter", "horizon", "model", "nthread", "test">>

\* f"{value}" of an argument; the filter width is in tenths
ArgValue(a, name) ==
    IF name = "gaussian_filter"
    THEN (IF a.gaussian_filter = None THEN "None"
          ELSE IF a.gaussian_filter = 10 THEN "1.0" ELSE "0.5")
    ELSE IF name = "horizon" THEN Digits[a.horizon + 1]
    ELSE IF name = "model" THEN a.model
    ELSE IF name = "nthread" THEN Digits[a.nthread + 1]
    ELSE IF a.test THEN "True" ELSE "False"

\* the first days of the time axis instead of the last
TimeStampsFirst(src, n) ==
    LET ts == PySlice(src.time, 0, n)
    IN  [shape |-> <<Len(ts)>>, dask |-> FALSE, chunksize |-> << >>, val |-> ts]

\* source[VID_TIM].data[-array.shape[0] :]
TimeStamps(src, n) ==
    LET ts == PySlice(src.time, 0 - n, Len(src.time))
    IN  [shape |-> <<Len(ts)>>, dask |-> FALSE, chunksize |-> << >>, val |-> ts]

\* source[vid].data of a coordinate variable
Coordinate(values) ==
    [shape |-> <<Len(values)>>, dask |-> FALSE, chunksize |-> << >>, val |-> values]

\* the calls of run that declare the dimensions and the variables, and the
\* arrays it binds
RunDims == <<DID_TIM, DID_LAT, DID_LON>>
RunVars ==
    << [vid |-> VID_TIM, did |-> <<DID_TIM>>],
       [vid |-> VID_LAT, did |-> <<DID_LAT>>],
       [vid |-> VID_LON, did |-> <<DID_LON>>],
       [vid |-> Text(VID_CHL), did |-> <<DID_TIM, DID_LAT, DID_LON>>] >>
RunArrays ==
    << TimeStamps(source, run_array.shape[1]),
       Coordinate(source.lat),
       Coordinate(source.lon),
       run_array >>

Entries(dict) == Cardinality(DOMAIN dict)

\* run: f = Forecast(args.model, horizon=, nthread=, test=)
RunForecast ==
    /\ rpc = "run"
    /\ LET inst == Forecast(args.model, args.horizon, args.nthread, args.test)
       IN  /\ model_spec' = inst._model_spec
           /\ feature_names' = inst._model.feature_names
           /\ bias' = inst._model.bias
           /\ columns' = inst._columns
           /\ horizon' = inst._h
           /\ nthread' = inst._nthread
           /\ test' = inst._test
    /\ rpc' = "apply"
    /\ UNCHANGED <<names, feats, pc, f, h, t, x, yout, result, err, preds>>
    /\ UNCHANGED <<reduced, restored, args, source, run_array>>
    /\ UNCHANGED <<bvars, cvars>>

\* run: feats, names = self._features(source); array = f.apply_to(...)
RunApply ==
    /\ rpc = "apply"
    /\ LET r == apply_to(_features(source).feats)
       IN  IF r.err # "none"
           THEN /\ err' = r.err
                /\ rpc' = "failed"
                /\ run_array' = run_array
           ELSE /\ run_array' = r
                /\ rpc' = IF args.gaussian_filter # None THEN "gaussian" ELSE "builder"
                /\ err' = err
    /\ UNCHANGED <<feature_names, bias, columns, horizon, test, names, feats,
                   pc, f, h, t, x, yout, result, preds>>
    /\ UNCHANGED <<args, source>>
    /\ UNCHANGED <<bvars, svars, cvars>>

\* run: array = Gaussian(array.dtype).apply_to(array, fwhm=args.gaussian_filter)
RunGaussian ==
    /\ rpc = "gaussian"
    /\ LET r == GaussianApplyTo(run_array, {"fwhm"})
       IN  IF r.err # "none"
           THEN /\ err' = r.err
                /\ rpc' = "failed"
                /\ run_array' = run_array
           ELSE /\ run_array' = r
                /\ rpc' = "builder"
                /\ err' = err
    /\ UNCHANGED <<feature_names, bias, columns, horizon, test, names, feats,
                   pc, f, h, t, x, yout, result, preds>>
    /\ UNCHANGED <<args, source>>
    /\ UNCHANGED <<bvars, svars, cvars>>

\* run: the call on the builder that is next; an exception ends run
RunBuilding == rpc = "builder" /\ last.err = "none" /\ last.op # "build"

\* run: builder.add_attr(name, f"{value}") for the sorted arguments
RunAddAttr ==
    /\ RunBuilding
    /\ Entries(attrs_dict) < Len(ArgNames)
    /\ LET name == ArgNames[Entries(attrs_dict) + 1]
       IN  add_attr(name, ArgValue(args, name))

\* run: builder.add_dim(DID_TIM, array.shape[0]), and so for lat and lon
RunAddDim ==
    /\ RunBuilding
    /\ Entries(attrs_dict) = Len(ArgNames)
    /\ Entries(shape_dict) < Len(RunDims)
    /\ LET k == Entries(shape_dict) + 1
       IN  add_dim(RunDims[k], run_array.shape[k], 0 - 1)

\* run: builder.add_var(VID_TIM, DID_TIM), and so for lat, lon and chl
RunAddVar ==
    /\ RunBuilding
    /\ Entries(shape_dict) = Len(RunDims)
    /\ Entries(dimid_dict) < Len(RunVars)
    /\ LET k == Entries(dimid_dict) + 1
       IN  add_var(RunVars[k].vid, RunVars[k].did)

\* run: builder.add_array(VID_TIM, source[VID_TIM].data[-array.shape[0] :]),
\* then the arrays of lat, lon and chl
RunAddArray ==
    /\ RunBuilding
    /\ Entries(dimid_dict) = Len(RunVars)
    /\ Entries(array_dict) < Len(RunVars)
    /\ LET k == Entries(array_dict) + 1
       IN  add_array(RunVars[k].vid, RunArrays[k])

\* run: return builder.build()
RunBuild ==
    /\ RunBuilding
    /\ Entries(array_dict) = Len(RunVars)
    /\ build

\* the configurations of the operator and the source datasets
FilterWidths == {None, 10}
Args ==
    [model : ModelSpecs, horizon : 1..MaxHorizon, nthread : {2}, test : BOOLEAN,
     gaussian_filter : FilterWidths]
Sources ==
    {SourceOf(d, nms, latblocks, lonblocks) :
        d \in 0..MaxDays, nms \in {<<VID_CHL, VID_NO3>>, <<VID_NO3, VID_SST, VID_CHL>>},
        latblocks \in Blockings(NLat), lonblocks \in Blockings(NLon)}

NextR ==
    \/ RunForecast
    \/ RunApply
    \/ RunGaussian
    \/ RunAddAttr
    \/ RunAddDim
    \/ RunAddVar
    \/ RunAddArray
    \/ RunBuild

\* ---------------------------------------------------------- specifications

\* no forecast call is in progress while the builder is exercised
IdleF ==
    /\ feature_names = << >>
    /\ bias = 0
    /\ columns = << >>
    /\ horizon = 1
    /\ test = FALSE
    /\ names = << >>
    /\ feats = << >>
    /\ pc = "idle"
    /\ f = EmptyDict
    /\ h = 0
    /\ t = 0
    /\ x = << >>
    /\ yout = NoArray
    /\ result = NoArray
    /\ err = "none"
    /\ preds = << >>

\* no instance is serialized while a forecast runs or a builder is exercised
IdleS ==
    /\ model_spec = ""
    /\ nthread = 1
    /\ reduced = NotYet
    /\ restored = NotYet

\* no operator runs
IdleR ==
    /\ args = [model |-> "", horizon |-> 1, nthread |-> 1, test |-> FALSE,
               gaussian_filter |-> None]
    /\ source = SourceOf(0, << >>, <<NLat>>, <<NLon>>)
    /\ run_array = Unset
    /\ rpc = "idle"

\* the engine makes no calls
IdleC ==
    /\ calls = << >>
    /\ frames = << >>

InitForecast == InitF /\ InitB /\ IdleS /\ IdleR /\ IdleC
InitBuilder == IdleF /\ InitB /\ IdleS /\ IdleR /\ IdleC

\* one instance and the calls on the tiles of a domain, about to start
InitCalls ==
    /\ \E b \in Boosters, H \in 1..MaxHorizon, tm \in BOOLEAN,
          nms \in {<<VID_NO3, VID_SST, VID_CHL>>, <<VID_CHL, VID_SST>>},
          d \in {MaxDays} :
         \E bad \in {q \in BadCells(d) : q.day \in {0, d} /\ q.v \in {1, NaN}} :
           /\ feature_names = b.feature_names
           /\ bias = b.bias
           /\ columns = load_model(b.feature_names).cols
           /\ horizon = H
           /\ test = tm
           /\ names = nms
           /\ feats = [k \in 1..Len(nms) |-> FieldOf(nms[k], d, bad)]
    /\ calls = [k \in Tiles |->
                  [v \in DOMAIN NewCall(<< >>, << >>, << >>) \ {"f"} |->
                      NewCall(names, [q \in 1..Len(feats) |-> TileOf(feats[q], k)],
                              <<NLat, Cardinality(TileColumns(k))>>)[v]]]
    /\ frames = [k \in Tiles |-> EmptyDict]
    /\ pc = "idle"
    /\ f = EmptyDict
    /\ h = 0
    /\ t = 0
    /\ x = << >>
    /\ yout = NoArray
    /\ result = NoArray
    /\ err = "none"
    /\ preds = << >>
    /\ InitB
    /\ IdleS
    /\ IdleR

\* an operator about to run on a source dataset
InitRun ==
    /\ IdleF
    /\ InitB
    /\ IdleS
    /\ args \in Args
    /\ source \in Sources
    /\ run_array = Unset
    /\ rpc = "run"
    /\ IdleC

\* a Forecast instance made by its constructor; it is not called
InitSerial ==
    /\ \E spec \in ModelSpecs, H \in 1..MaxHorizon, nt \in NThreads, tm \in BOOLEAN :
         LET inst == Forecast(spec, H, nt, tm)
         IN  /\ model_spec = inst._model_spec
             /\ feature_names = inst._model.feature_names
             /\ bias = inst._model.bias
             /\ columns = inst._columns
             /\ horizon = inst._h
             /\ nthread = inst._nthread
             /\ test = inst._test
    /\ names = << >>
    /\ feats = << >>
    /\ pc = "idle"
    /\ f = EmptyDict
    /\ h = 0
    /\ t = 0
    /\ x = << >>
    /\ yout = NoArray
    /\ result = NoArray
    /\ err = "none"
    /\ preds = << >>
    /\ reduced = NotYet
    /\ restored = NotYet
    /\ InitB
    /\ IdleR
    /\ IdleC

\* one instance, serialized and made again
SpecS == InitSerial /\ [][NextS]_vars

\* one forecast call on one block
SpecF == InitForecast /\ [][NextF]_vars

\* one builder and the calls made on it
SpecB == InitBuilder /\ [][NextB]_vars

\* one builder and every operation on it
SpecD == InitBuilder /\ [][NextD]_vars

\* one run of the forecast operator
SpecR == InitRun /\ [][NextR]_vars

\* the calls on the tiles of a domain, their steps in any order
SpecC == InitCalls /\ [][NextC]_vars

\* ------------------------------------------------------------------ claims

\* the number of days of the block handed to forecast
Days == IF Len(feats) = 0 THEN 0 ELSE Len(feats[1])

\* the caller's array of a name
Input(name) == ZipDict(names, feats)[name]

\* the names fc needs: the model's and the two it reads itself
Needed == {columns[i].name : i \in 1..Len(columns)} \cup {VID_CHL, VID_NO3}
Supplied == {names[i] : i \in 1..Len(names)}

Enough == Days >= history(columns) + horizon

Masked(v, z) == IF isfinite(z) THEN v ELSE NaN
MaskedDay(day, zday) ==
    [i \in 1..Len(day) |-> [j \in 1..Len(day[i]) |-> Masked(day[i][j], zday[i][j])]]

\* C1: not in test mode, a block of d >= history + horizon days yields exactly
\* horizon days, and these are the predictions for the last horizon days of
\* the input time axis, in order, each nullified by the nitrate of its day;
\* such a call fails only for a missing feature
C1_ReturnsLastHorizonDays ==
    (~test /\ Enough /\ pc \in {"done", "failed"}) =>
        IF pc = "failed"
        THEN err = "KeyError" /\ ~(Needed \subseteq Supplied)
        ELSE /\ Len(result) = horizon
             /\ Len(preds) = horizon
             /\ \A k \in 1..horizon :
                   result[k] = MaskedDay(preds[k], Input(VID_NO3)[Days - horizon + k])

C1_Witness ==
    /\ pc = "done"
    /\ ~test
    /\ horizon = 2
    /\ Days > history(columns) + horizon
    /\ \E i \in 1..NLat, j \in 1..NLon : result[1][i][j] = NaN

\* C2 (as claimed): a block of fewer than history + horizon days never makes
\* forecast return an array, in either mode
C2_ShortBlockNeverReturns ==
    ~(pc = "done" /\ ~Enough)

\* C3: every returned value whose nitrate is non-finite on its day is NaN,
\* every other returned value is the model's clipped prediction; while the
\* loop runs the days written so far hold the predictions, not yet nullified
C3_NullifiedByNitrateOfTheDay ==
    /\ (pc = "done" /\ ~test) =>
          \A k \in 1..Len(result), i \in 1..NLat, j \in 1..NLon :
             LET z == Input(VID_NO3)[Days - horizon + k][i][j]
             IN  IF isfinite(z) THEN result[k][i][j] = preds[k][i][j]
                 ELSE result[k][i][j] = NaN
    /\ (pc = "done" /\ test) =>
          \A k \in 1..Len(result), i \in 1..NLat, j \in 1..NLon :
             ~isfinite(Input(VID_NO3)[k - 1 + history(columns) + horizon][i][j])
                => result[k][i][j] = NaN
    /\ (pc = "window" /\ test /\ t >= 1) =>
          \A i \in 1..NLat, j \in 1..NLon :
             LET z == Input(VID_NO3)[t - 1 + history(columns) + horizon][i][j]
             IN  IF isfinite(z) THEN yout[t][i][j] = preds[horizon][i][j]
                 ELSE yout[t][i][j] = NaN
    /\ (pc \in {"table", "predict"}) =>
          \A k \in 1..Len(preds) :
             f[VID_CHL][Len(f[VID_CHL]) - horizon + k] = preds[k]

C3_Witness ==
    /\ pc = "done"
    /\ Len(result) = 2
    /\ \E i \in 1..NLat, j \in 1..NLon :
          /\ result[1][i][j] = NaN
          /\ result[2][i][j] # NaN
          /\ IF test THEN TRUE ELSE preds[1][i][j] # NaN

\* C4: every returned value is NaN or a finite value >= 0
C4_ReturnedValuesNonNegative ==
    pc = "done" =>
        \A k \in 1..Len(result), i \in 1..NLat, j \in 1..NLon :
           \/ result[k][i][j] = NaN
           \/ (isfinite(result[k][i][j]) /\ result[k][i][j] # Uninit /\ result[k][i][j] >= 0)

C4_Witness ==
    /\ pc = "done"
    /\ Len(result) >= 1
    /\ \E i \in 1..NLat, j \in 1..NLon :
          /\ Input(VID_CHL)[Days][i][j] < 0
          /\ result[Len(result)][i][j] = 0

\* C5: in test mode a block of d >= history + horizon days yields exactly
\* d - history - horizon + 1 days; such a call fails only for a missing feature
C5_TestModeDayCount ==
    (test /\ Enough /\ pc \in {"done", "failed"}) =>
        IF pc = "failed"
        THEN err = "KeyError" /\ ~(Needed \subseteq Supplied)
        ELSE /\ Len(result) = Days - history(columns) - horizon + 1
             /\ t = Len(result)

C5_Witness ==
    /\ pc = "done"
    /\ test
    /\ Len(result) = 3

\* the raw input days [tt, tt + len) of an array (tt counted from 0)
RawDays(feat, tt, len) == [k \in 1..len |-> feat[tt + k]]

\* C6: day k of a test mode result is the last day of the forecast, not in
\* test mode, of the raw input days [k - 1, k - 1 + history + horizon)
C6_TestModeReplaysForecast ==
    /\ (pc = "done" /\ ~test) =>
          result = ForecastValue(names, feats, columns, bias, horizon)
    /\ (pc = "done" /\ test) =>
          \A k \in 1..Len(result) :
             result[k] =
               PyAt(ForecastValue(names,
                        [q \in 1..Len(feats) |->
                            RawDays(feats[q], k - 1, history(columns) + horizon)],
                        columns, bias, horizon), 0 - 1)

C6_Witness ==
    /\ pc = "done"
    /\ test
    /\ horizon = 2
    /\ history(columns) = 1
    /\ Len(result) = 2
    /\ \E i \in 1..NLat, j \in 1..NLon : result[2][i][j] = NaN
    /\ \E i \in 1..NLat, j \in 1..NLon : result[1][i][j] > 0

\* C7: in the table of step h a chlorophyll column of offset o < 0 holds the
\* prediction made in this call for day -(h - o) when h - o <= horizon, and
\* the raw input of that day otherwise
C7_LaggedChlReadsOwnPrediction ==
    pc = "predict" =>
        \A c \in 1..Len(columns) :
           (columns[c].name = VID_CHL /\ columns[c].t < 0) =>
               LET back == h - columns[c].t
                   last_day == IF test THEN t + history(columns) + horizon ELSE Days
               IN  x[c] = ravel(IF back <= horizon
                                THEN preds[horizon - back + 1]
                                ELSE Input(VID_CHL)[last_day - back + 1])

\* history 1, horizon 2: the table of the second day reads the first day's
\* prediction, which differs from the raw input of that day
C7_Witness ==
    /\ pc = "predict"
    /\ h = 1
    /\ horizon = 2
    /\ history(columns) = 1
    /\ \E c \in 1..Len(columns) :
          /\ columns[c] = [t |-> 0 - 1, name |-> VID_CHL]
          /\ x[c] = ravel(preds[1])
          /\ x[c] # ravel(Input(VID_CHL)[(IF test THEN t + 3 ELSE Days) - 1])

SetMax(S) == CHOOSE m \in S : \A q \in S : q <= m

FeatureIds == {VID_CHL, VID_NO3, VID_SST}

Reorder(seq, perm) == [i \in 1..Len(seq) |-> seq[perm[i]]]

\* C8: history is max(0, -min offset), is >= 0 and is the same for every
\* order of the declared names; "t-<k>_<feature>" declares offset -k of
\* <feature>, every name not starting with "t-" offset 0 of that name
C8_HistoryOfModel ==
    /\ history(columns) >= 0
    /\ history(columns) = SetMax({0} \cup {0 - columns[i].t : i \in 1..Len(columns)})
    /\ \A perm \in Permutations(1..Len(feature_names)) :
          history(load_model(Reorder(feature_names, perm)).cols) = history(columns)
    /\ Len(columns) = Len(feature_names)
    /\ \A i \in 1..Len(feature_names) :
          /\ \A k \in 0..9, nm \in FeatureIds :
                feature_names[i] = Lag(k, nm) => columns[i] = [t |-> 0 - k, name |-> nm]
          /\ ~startswith(feature_names[i], <<"t", "-">>) =>
                columns[i] = [t |-> 0, name |-> feature_names[i]]

C8_Witness ==
    /\ pc = "call"
    /\ history(columns) = 2
    /\ columns[1].t = 0 - 2
    /\ columns[2] = [t |-> 0 - 1, name |-> VID_SST]
    /\ columns[3] = [t |-> 0, name |-> VID_SST]

\* C9 (as claimed): a call that lacks a feature the model's columns name
\* never returns an array
C9_MissingFeatureNeverReturns ==
    ~(pc = "done" /\ \E c \in 1..Len(columns) : columns[c].name \notin Supplied)

\* the axes on which an array disagrees with the sizes recorded for the
\* dimensions of a variable
Mismatch(vid, array) ==
    {i \in 1..Len(dimid_dict[vid]) :
        /\ i <= Len(array.shape)
        /\ dimid_dict[vid][i] \in DOMAIN shape_dict
        /\ array.shape[i] # shape_dict[dimid_dict[vid][i]]}

\* C10: add_array of an array whose size on some axis of the variable's
\* dimensions differs from the size recorded for that dimension fails, and
\* the array is not bound
C10_MismatchingArrayIsRejected ==
    [][\A vid \in VarIds, array \in Arrays :
          (add_array(vid, array) /\ vid \in DOMAIN dimid_dict /\ Mismatch(vid, array) # {})
             => (last'.err # "none" /\ array_dict' = array_dict)]_vars

\* a variable on ("time", "lat") whose first array was accepted, and a
\* second variable sharing "time" whose array of another size was rejected
C10_Witness ==
    /\ last.op = "add_array"
    /\ last.key = "time"
    /\ last.err = "AssertionError"
    /\ "time" \in DOMAIN dimid_dict
    /\ "time" \notin DOMAIN array_dict
    /\ dimid_dict["time"] = <<"time">>
    /\ "chl" \in DOMAIN array_dict
    /\ dimid_dict["chl"] = <<"time", "lat">>

\* the five dictionaries of the builder
BuilderState == <<attrs_dict, array_dict, dimid_dict, shape_dict, chunk_dict>>

\* C11: add_dim of a declared dimension fails; add_var fails for a variable
\* that is declared or has an array, and for a dimension that is not declared;
\* a failing add_dim or add_var leaves the five dictionaries as they were
C11_DeclarationsAreChecked ==
    [][/\ \A did \in DimIds, shape \in Sizes, chunk \in {0 - 1} \cup Sizes :
            (last'.op = "add_dim" /\ add_dim(did, shape, chunk)) =>
                /\ did \in DOMAIN shape_dict => last'.err # "none"
                /\ last'.err # "none" => UNCHANGED BuilderState
       /\ \A vid \in VarIds, did \in DimTuples :
            (last'.op = "add_var" /\ add_var(vid, did)) =>
                /\ (\/ vid \in DOMAIN dimid_dict
                    \/ vid \in DOMAIN array_dict
                    \/ \E i \in 1..Len(did) : did[i] \notin DOMAIN shape_dict)
                   => last'.err # "none"
                /\ last'.err # "none" => UNCHANGED BuilderState]_vars

\* a declaration of a variable has just failed for a dimension that is not
\* declared, while another dimension and another variable are declared
C11_Witness ==
    /\ last.op = "add_var"
    /\ last.err = "AssertionError"
    /\ last.key \notin DOMAIN dimid_dict
    /\ last.key \notin DOMAIN array_dict
    /\ DOMAIN shape_dict # {}
    /\ DOMAIN dimid_dict # {}

\* a step that is a call to bind an array to vid
Binds(vid) ==
    /\ last'.op \in {"add_array", "add_full", "add_dataset_array"}
    /\ last'.key = vid

\* C12: only a declared variable has an array; binding a variable that is
\* not declared fails, a second binding fails, and the array of a variable
\* stays the one bound first until clear
C12_BoundOnceAfterDeclaration ==
    [][/\ DOMAIN array_dict' \subseteq DOMAIN dimid_dict'
       /\ \A vid \in VarIds :
            (Binds(vid) /\ (vid \notin DOMAIN dimid_dict \/ vid \in DOMAIN array_dict))
                => (last'.err # "none" /\ array_dict' = array_dict)
       /\ last'.op # "clear" =>
            \A vid \in DOMAIN array_dict :
                vid \in DOMAIN array_dict' /\ array_dict'[vid] = array_dict[vid]]_vars

\* a second binding of a variable has just failed
C12_Witness ==
    /\ last.op = "add_full"
    /\ last.err = "AssertionError"
    /\ last.key \in DOMAIN array_dict
    /\ array_dict[last.key].val = 7

\* no variable with an array is declared on dimension d
Unpopulated(d) ==
    \A v \in DOMAIN array_dict : \A i \in 1..Len(dimid_dict[v]) : dimid_dict[v][i] # d

\* the size of a declared dimension stays what it is until clear
SizesStay ==
    last'.op # "clear" =>
        \A d \in DOMAIN shape_dict :
            d \in DOMAIN shape_dict' /\ shape_dict'[d] = shape_dict[d]

\* every array of the builder has, on each axis of its variable's
\* dimensions, the size recorded for the dimension
ArraysMatch ==
    \A v \in DOMAIN array_dict : \A i \in 1..Len(dimid_dict[v]) :
        /\ i <= Len(array_dict[v].shape)
        /\ array_dict[v].shape[i] = shape_dict[dimid_dict[v][i]]

\* C13 as stated: the first array bound on a dimension is accepted and its
\* axis size becomes the size of the dimension; later arrays match it or the
\* binding fails; the size does not change until clear
C13_SizeFixedByFirstArray ==
    [][/\ \A vid \in VarIds, array \in FewArrays :
            (/\ add_array(vid, array)
             /\ vid \in DOMAIN dimid_dict
             /\ vid \notin DOMAIN array_dict
             /\ Len(array.shape) = Len(dimid_dict[vid])
             /\ \A i \in 1..Len(dimid_dict[vid]) : Unpopulated(dimid_dict[vid][i]))
            => (/\ last'.err = "none"
                /\ \A i \in 1..Len(dimid_dict[vid]) :
                      shape_dict'[dimid_dict[vid][i]] = array.shape[i])
       /\ ArraysMatch'
       /\ SizesStay]_vars

\* C13 amended: the size of a dimension is the one add_dim declared; only
\* add_dim gives a dimension a size; every array of the builder, the first
\* one on a dimension included, has that size, a binding of any other size
\* fails; the size does not change until clear
C13_SizeFixedByDeclaration ==
    [][/\ \A d \in DOMAIN shape_dict' \ DOMAIN shape_dict :
            last'.op = "add_dim" /\ last'.key = d /\ last'.err = "none"
       /\ ArraysMatch'
       /\ \A vid \in VarIds :
            (/\ Binds(vid)
             /\ vid \in DOMAIN dimid_dict
             /\ \A i \in 1..Len(dimid_dict[vid]) : Unpopulated(dimid_dict[vid][i])
             /\ last'.err = "none")
            => \A i \in 1..Len(dimid_dict[vid]) :
                  array_dict'[vid].shape[i] = shape_dict[dimid_dict[vid][i]]
       /\ SizesStay]_vars

\* the first array offered on a dimension has just been rejected: its size
\* is not the declared one
C13_Witness ==
    /\ last.op = "add_array"
    /\ last.err = "AssertionError"
    /\ last.key \in DOMAIN dimid_dict
    /\ last.key \notin DOMAIN array_dict
    /\ Len(dimid_dict[last.key]) = 1
    /\ Unpopulated(dimid_dict[last.key][1])
    /\ array_dict # << >>

\* C14: a binding that succeeds leaves an array with as many axes as its
\* variable has dimensions and with the recorded sizes, and build does not
\* raise
C14_NoErrorDeferredToBuild ==
    [][/\ \A vid \in VarIds :
            (Binds(vid) /\ last'.err = "none")
            => (/\ Len(array_dict'[vid].shape) = Len(dimid_dict'[vid])
                /\ ArraysMatch')
       /\ last'.op = "build" => last'.err = "none"]_vars

\* C15: in a built dataset the coordinate variables are the variables with an
\* array whose identifier is a declared dimension, the data variables are
\* the other variables with an array
C15_CoordinatesAreDimensions ==
    (last.op = "build" /\ last.err = "none") =>
        LET c_vars == DOMAIN last.ret.coords
            d_vars == DOMAIN last.ret.data_vars
        IN  /\ \A v \in DOMAIN array_dict : v \in c_vars <=> v \in DOMAIN shape_dict
            /\ \A v \in DOMAIN array_dict : v \in d_vars <=> v \notin DOMAIN shape_dict
            /\ c_vars \cap d_vars = {}
            /\ c_vars \cup d_vars = DOMAIN array_dict
            /\ \A v \in c_vars : last.ret.coords[v].data = array_dict[v]
            /\ \A v \in d_vars : last.ret.data_vars[v].data = array_dict[v]

\* a dataset with a coordinate variable and a data variable has been built
C15_Witness ==
    /\ last.op = "build"
    /\ last.err = "none"
    /\ DOMAIN last.ret.coords = {"time"}
    /\ DOMAIN last.ret.data_vars = {"chl"}

\* C16: build leaves the five dictionaries as they are, so that a build
\* right after it returns the same dataset and what is declared stays
\* declared; clear leaves the dictionaries as those of a new builder
C16_BuildKeepsClearReleases ==
    [][/\ last'.op = "build" => UNCHANGED BuilderState
       /\ last'.op = "build" => last'.ret = BuildResult'.dataset
       /\ last'.op = "clear" => BuilderState' = <<<< >>, << >>, << >>, << >>, << >>>>
       /\ last'.op \notin {"clear", "add_dim", "add_var"} =>
             /\ DOMAIN shape_dict' = DOMAIN shape_dict
             /\ dimid_dict' = dimid_dict]_vars

\* a dataset has been built from a builder that holds an attribute, a
\* declared dimension and a variable with an array
C16_Witness ==
    /\ last.op = "build"
    /\ last.err = "none"
    /\ DOMAIN attrs_dict # {}
    /\ DOMAIN array_dict # {}
    /\ last.ret.attrs = attrs_dict

\* C17 as stated: add_full on a declared variable without an array binds an
\* array of the declared sizes, chunked with the chunk size of each
\* dimension, every element being the value; any other add_full fails
C17_FullArrayAsDeclared ==
    [][\A vid \in VarIds, value \in FillValues, dtype \in DTypes :
        (last'.op = "add_full" /\ add_full(vid, value, dtype)) =>
            IF vid \in DOMAIN dimid_dict /\ vid \notin DOMAIN array_dict
            THEN LET did == dimid_dict[vid]
                     a == array_dict'[vid]
                 IN  /\ last'.err = "none"
                     /\ a.shape = [i \in 1..Len(did) |-> shape_dict[did[i]]]
                     /\ a.chunksize = [i \in 1..Len(did) |-> chunk_dict[did[i]]]
                     /\ a.val = value
            ELSE last'.err # "none" /\ array_dict' = array_dict]_vars

\* C17 amended: the chunk size of an axis is the chunk size of the dimension
\* or, where this is larger, the size of the dimension; every element is
\* the value converted to the data type (1.5 becomes 1 for an integer type)
C17_FullArrayClampedAndCast ==
    [][\A vid \in VarIds, value \in FillValues, dtype \in DTypes :
        (last'.op = "add_full" /\ add_full(vid, value, dtype)) =>
            IF vid \in DOMAIN dimid_dict /\ vid \notin DOMAIN array_dict
            THEN LET did == dimid_dict[vid]
                     a == array_dict'[vid]
                 IN  /\ last'.err = "none"
                     /\ a.dask
                     /\ a.shape = [i \in 1..Len(did) |-> shape_dict[did[i]]]
                     /\ a.chunksize =
                            [i \in 1..Len(did) |->
                                IF chunk_dict[did[i]] <= shape_dict[did[i]]
                                THEN chunk_dict[did[i]] ELSE shape_dict[did[i]]]
                     /\ dtype = "single" => a.val = value
                     /\ dtype = "int" =>
                            (a.val % 10 = 0 /\ a.val <= value /\ value < a.val + 10)
            ELSE last'.err # "none" /\ array_dict' = array_dict]_vars

\* add_full has just bound an array of two axes whose elements are the
\* converted value, to a variable on a dimension of size 1
C17_Witness ==
    /\ last.op = "add_full"
    /\ last.err = "none"
    /\ array_dict[last.key].val = 10
    /\ Len(array_dict[last.key].shape) = 2
    /\ \E i \in 1..2 : array_dict[last.key].shape[i] = 1

\* C18: in both modes the algorithm reports no created axis, and axis 0 as
\* the dropped (resized) one
C18_NoAxisCreated ==
    test \in BOOLEAN => (created_axes = << >> /\ dropped_axes = <<0>>)

\* the Dask arrays of which the block of d days is a block: the array of
\* this one block, and the arrays whose earlier blocks have D >= d days
InputsWithBlock(d) ==
    {DaskOf(<<tc, <<NLat>>, <<NLon>>>>) :
        tc \in {<<d>>} \cup {<<D, d>> : D \in d..MaxDays}}

\* C19: for a block of d >= history + horizon days the leading size that
\* chunks returns is the number of days forecast returns for the block, and
\* the other entries are the chunks of the first input
C19_ChunksAgreeWithForecast ==
    (pc = "done" /\ Enough) =>
        \A inp \in InputsWithBlock(Days) :
            LET c == chunks(<<inp>>)
            IN  /\ c[1] = Len(result)
                /\ Tail(c) = Tail(inp.chunks)

\* C20: what __reduce__ returns is the class with the model specifier, the
\* horizon, the number of threads and the test flag, and nothing of the
\* loaded model; the instance made from it has the specifier, horizon,
\* number of threads and test flag of the original, and the model loaded
\* anew gives it the feature columns and the history of the original
C20_ReduceRoundTrip ==
    /\ reduced # NotYet =>
          /\ reduced.cls = "Forecast"
          /\ Len(reduced.args) = 4
          /\ reduced.args[1] = model_spec
          /\ reduced.args[2] = horizon
          /\ reduced.args[3] = nthread
          /\ reduced.args[4] = test
          /\ DOMAIN reduced = {"cls", "args"}
    /\ restored # NotYet =>
          /\ restored._model_spec = model_spec
          /\ restored._h = horizon
          /\ restored._nthread = nthread
          /\ restored._test = test
          /\ restored._columns = columns
          /\ history(restored._columns) = history(columns)
          /\ restored._model = [feature_names |-> feature_names, bias |-> bias]

\* an instance in test mode, of a model with history 2 named in the
\* registry, with a horizon and a number of threads that differ, has been
\* made again from what __reduce__ returned
C20_Witness ==
    /\ restored # NotYet
    /\ model_spec = "h2"
    /\ history(columns) = 2
    /\ test
    /\ horizon = 2
    /\ nthread = 4

\* run has returned the dataset that build made
RunDone == rpc = "builder" /\ last.op = "build" /\ last.err = "none"

\* run was ended by an exception
RunFailed == rpc = "failed" \/ (rpc = "builder" /\ last.err # "none")

\* C21: the dataset that run returns for a forecast array of N days has as
\* time coordinate the last N time stamps of the source, in order, as lat
\* and lon the coordinates of the source, and chl on (time, lat, lon) with
\* these sizes, in both modes; without a filter, run on a source of at
\* least history + horizon days does not fail
C21_LabelledWithLastTimeStamps ==
    /\ RunDone =>
          LET N == run_array.shape[1]
              d == Len(source.time)
              ds == last.ret
          IN  /\ N <= d
              /\ N = IF test THEN d - history(columns) - horizon + 1 ELSE horizon
              /\ DOMAIN ds.coords = {"time", "lat", "lon"}
              /\ DOMAIN ds.data_vars = {"chl"}
              /\ ds.coords["time"].data.val = [k \in 1..N |-> source.time[d - N + k]]
              /\ ds.coords["time"].dims = <<"time">>
              /\ ds.coords["lat"].data.val = source.lat
              /\ ds.coords["lon"].data.val = source.lon
              /\ ds.data_vars["chl"].dims = <<"time", "lat", "lon">>
              /\ ds.data_vars["chl"].data.shape = <<N, Len(source.lat), Len(source.lon)>>
    /\ RunFailed =>
          \/ args.gaussian_filter # None
          \/ Len(source.time) < history(columns) + horizon

\* run has returned, not in test mode, the dataset of the largest horizon
\* for a source of more days: its first time stamp is not the first of the
\* source
C21_Witness ==
    /\ RunDone
    /\ ~test
    /\ horizon = MaxHorizon
    /\ Len(source.time) = MaxDays
    /\ Len(last.ret.coords["time"].data.val) = MaxHorizon
    /\ last.ret.coords["time"].data.val[1] = Stamp(MaxDays - MaxHorizon + 1)
    /\ last.ret.coords["time"].data.val[1] # source.time[1]

\* C22: with a filter width configured run filters the forecast array and
\* goes on with an array of the same shape, the filter stage never ending
\* run; without one the forecast array goes to the builder as it is
C22_SmoothingKeepsShape ==
    LET fc == apply_to(_features(source).feats)
    IN  /\ rpc = "builder" =>
              /\ run_array.shape = fc.shape
              /\ run_array.val = IF args.gaussian_filter = None THEN "forecast"
                                 ELSE "filtered"
        /\ (rpc = "failed" /\ args.gaussian_filter # None) => fc.err # "none"

\* the fields of the instance that the calls share
Instance == <<feature_names, bias, columns, horizon, test>>

\* C23: whatever the order of the steps of the calls, a step of one call
\* changes the local variables of that call only and as the call alone
\* would, no step writes the model, the columns, the horizon or the test
\* flag, and a call that has ended has the outcome of the same call run
\* alone
C23_CallsAreIndependent ==
    [][/\ UNCHANGED Instance
       /\ \A k \in Tiles : Local(k)' = Local(k) \/ Local(k)' = Step(Local(k))
       /\ \A k \in Tiles :
            Ended(calls'[k]) =>
                LET alone == RunAlone(NewCall(calls[k].names, calls[k].feats,
                                              calls[k].shape))
                IN  /\ calls'[k].pc = alone.pc
                    /\ calls'[k].err = alone.err
                    /\ calls'[k].result = alone.result]_vars

\* the calls on the two tiles are both in their loops, the first about to
\* write its second day while the second has written none, each on its own
\* dictionary
C23_Witness ==
    /\ calls[1].pc = "predict"
    /\ calls[1].h = 1
    /\ calls[2].pc = "predict"
    /\ calls[2].h = 2
    /\ Len(calls[1].preds) = 1
    /\ frames[1][VID_CHL] # frames[2][VID_CHL]

\* C24: the loop of fc starts with index -horizon and ends after index -1;
\* the table of day -h is built when the days -horizon .. -(h + 1), and no
\* others, have been predicted and written; the step that follows writes
\* the prediction into day -h and into no other day, so that each of the
\* last horizon days is written once and no earlier day is written
C24_DaysInChronologicalOrder ==
    [][/\ (pc = "fc" /\ pc' = "table") => (h' = horizon /\ preds' = << >>)
       /\ (pc = "table" /\ pc' = "predict") =>
             /\ Len(preds) = horizon - h
             /\ \A k \in 1..Len(preds) :
                   f[VID_CHL][Len(f[VID_CHL]) - horizon + k] = preds[k]
             /\ f' = f
       /\ (pc = "predict" /\ pc' = "table") =>
             LET y == f[VID_CHL]
                 p == Len(y) - h + 1
             IN  /\ h' = h - 1
                 /\ Len(preds') = Len(preds) + 1
                 /\ p > Len(y) - horizon
                 /\ f'[VID_CHL][p] = preds'[Len(preds')]
                 /\ \A q \in 1..Len(y) : q # p => f'[VID_CHL][q] = y[q]
                 /\ \A nm \in DOMAIN f : nm # VID_CHL => f'[nm] = f[nm]
       /\ (pc = "table" /\ pc' \in {"done", "window"}) =>
             (h = 0 /\ Len(preds) = horizon)]_vars

\* the loop of a call with the largest horizon and more days than that is
\* about to build its last table: the days before the last one have been
\* predicted, and the first prediction differs from the input it replaced
C24_Witness ==
    /\ pc = "table"
    /\ h = 1
    /\ horizon = MaxHorizon
    /\ Len(preds) = MaxHorizon - 1
    /\ Len(f[VID_CHL]) > horizon
    /\ f[VID_CHL][Len(f[VID_CHL]) - horizon + 1] = preds[1]
    /\ preds[1] # Input(VID_CHL)[Days - horizon + 1]

\* the names that the columns of the model refer to
Referenced == {columns[i].name : i \in 1..Len(columns)}

\* C25: the table of a step has one column for each feature column of the
\* model, in the order in which the model declares them, column i holding
\* the day at offset t_i from the day being predicted of feature name_i;
\* the table is the same for every order of the supplied (array, name)
\* pairs and without the supplied features that no column refers to
C25_TableInModelOrder ==
    pc = "predict" =>
        LET y == f[VID_CHL]
            p == Len(y) - h + 1
            work == [k \in 1..Len(names) |-> f[names[k]]]
        IN  /\ Len(x) = Len(feature_names)
            /\ \A i \in 1..Len(x) :
                  /\ columns[i] = [t |-> ColumnOf(feature_names[i]).t,
                                   name |-> ColumnOf(feature_names[i]).name]
                  /\ x[i] = ravel(f[columns[i].name][p + columns[i].t])
            /\ \A perm \in Permutations(1..Len(names)) :
                  table(ZipDict(Reorder(names, perm), Reorder(work, perm)), columns, h).x = x
            /\ table([nm \in Referenced |-> f[nm]], columns, h).x = x

\* a table of three columns on two features has been built from arrays
\* supplied in another order, with a feature that no column refers to
C25_Witness ==
    /\ pc = "predict"
    /\ names = <<VID_NO3, VID_SST, VID_CHL>>
    /\ Len(x) = 3
    /\ Referenced = {VID_CHL, VID_SST}
    /\ x[1] # x[2]
    /\ x[2] # x[3]

SetMin(S) == CHOOSE m \in S : \A q \in S : m <= q

\* the chunk sizes of an array along dimension d of the dimensions did
ChunksAlong(array, did, d) ==
    IF array.dask THEN {array.chunksize[i] : i \in {q \in 1..Len(did) : did[q] = d}}
    ELSE {}

\* C26: a successful add_dim records the chunk size given, the size of the
\* dimension when -1 is given; a successful binding leaves for each
\* dimension the minimum of the chunk size recorded before and the chunk
\* sizes of the array along the dimension, which is never more than before;
\* no other successful call but clear changes a recorded chunk size; so
\* the recorded chunk size is at most that of every chunked array bound
C26_ChunkSizeIsMinimum ==
    [][last'.err = "none" =>
        /\ \A did \in DimIds, shape \in Sizes, chunk \in {0 - 1} \cup Sizes :
              (last'.op = "add_dim" /\ add_dim(did, shape, chunk)) =>
                  /\ chunk_dict'[did] = IF chunk = 0 - 1 THEN shape ELSE chunk
                  /\ \A d \in DOMAIN chunk_dict : chunk_dict'[d] = chunk_dict[d]
        /\ \A vid \in VarIds :
              Binds(vid) =>
                  /\ DOMAIN chunk_dict' = DOMAIN chunk_dict
                  /\ \A d \in DOMAIN chunk_dict :
                        /\ chunk_dict'[d] =
                              SetMin({chunk_dict[d]}
                                     \cup ChunksAlong(array_dict'[vid], dimid_dict[vid], d))
                        /\ chunk_dict'[d] <= chunk_dict[d]
        /\ last'.op \in {"add_var", "add_attr", "get_array", "build"} =>
              chunk_dict' = chunk_dict
        /\ \A v \in DOMAIN array_dict', d \in DOMAIN chunk_dict' :
              \A c \in ChunksAlong(array_dict'[v], dimid_dict'[v], d) : chunk_dict'[d] <= c]_vars

\* an array of smaller chunks has just been bound on a dimension on which
\* an array of larger chunks was bound before: the smaller size is recorded
C26_Witness ==
    /\ last.op = "add_dataset_array"
    /\ last.err = "none"
    /\ "time" \in DOMAIN chunk_dict
    /\ chunk_dict["time"] = 1
    /\ shape_dict["time"] = 2
    /\ \E v \in DOMAIN array_dict :
          /\ array_dict[v].dask
          /\ dimid_dict[v][1] = "time"
          /\ array_dict[v].chunksize[1] = 2

\* C27: no step of forecast changes an array of the caller; but for the
\* chlorophyll, whose working array alone is written, the dictionary holds
\* the caller's days as they are; each call of fc, in test mode the one of
\* every window, starts on the raw chlorophyll of its days, whatever was
\* predicted and written before
C27_CallerArraysUntouched ==
    [][/\ feats' = feats
       /\ \A k \in 1..Len(names) :
             (pc' \in {"fc", "table", "predict"} /\ names[k] # VID_CHL) =>
                 f'[names[k]] = IF test THEN Window(feats[k], t', history(columns), horizon)
                                ELSE feats[k]
       /\ \A nm \in DOMAIN f :
             (nm # VID_CHL /\ pc \in {"table", "predict"}) => f'[nm] = f[nm]
       /\ (pc' = "fc" /\ VID_CHL \in DOMAIN f') =>
             f'[VID_CHL] = IF test THEN RawDays(ChlField(Days), t', history(columns) + horizon)
                           ELSE ChlField(Days)]_vars

\* in test mode the window after the first is about to be processed: a
\* prediction that differs from the input of its day was written while the
\* first window was processed, and the caller's chlorophyll is as it was
C27_Witness ==
    /\ test
    /\ pc = "fc"
    /\ t = 1
    /\ Len(preds) = horizon
    /\ preds[1] # Input(VID_CHL)[history(columns) + 1]
    /\ Input(VID_CHL) = ChlField(Days)
    /\ f[VID_CHL] = RawDays(ChlField(Days), 1, history(columns) + horizon)

\* C28: an add_array that fails, for a variable that is not declared or
\* has an array or for a size that differs on some axis, leaves the five
\* dictionaries of the builder as they were
C28_FailingAddArrayIsAtomic ==
    [][(last'.op = "add_array" /\ last'.err = "AssertionError")
          => UNCHANGED BuilderState]_vars

\* C29: a call whose supplied names lack chl or no3 makes no prediction
\* and returns no array, whatever the columns of the model refer to
C29_ChlAndNo3Required ==
    (VID_CHL \notin Supplied \/ VID_NO3 \notin Supplied) =>
        /\ pc \notin {"table", "predict", "done"}
        /\ preds = << >>

\* the call on the whole domain, run alone
WholeDomain == RunAlone(NewCall(names, feats, <<NLat, NLon>>))

\* the row of the table that ravel gives to the pixel (i, j) of a block
\* with w columns
RowOf(i, j, w) == (i - 1) * w + j

\* C30: in every call on a tile, row RowOf(i, j) of the table holds the
\* features of the pixel (i, j), and the value predicted from that row is
\* the one written to the pixel (i, j) of the forecast day; a call ended on
\* a tile has the outcome of the call on the whole domain, and returns the
\* part of its result that lies in the tile
C30_PixelsAlignedAndTilesAgree ==
    \A k \in Tiles :
        LET c == Local(k)
            w == c.shape[2]
        IN  /\ c.pc = "predict" =>
                \A m \in 1..Len(columns), i \in 1..c.shape[1], j \in 1..w :
                    c.x[m][RowOf(i, j, w)]
                        = PyAt(c.f[columns[m].name], columns[m].t - c.h)[i][j]
            /\ (c.pc = "table" /\ Len(c.preds) > 0) =>
                \A i \in 1..c.shape[1], j \in 1..w :
                    LET v == Clip(BoosterPredict(bias, TableRow(c.x, RowOf(i, j, w))))
                    IN  /\ c.preds[Len(c.preds)][i][j] = v
                        /\ PyAt(c.f[VID_CHL], 0 - (c.h + 1))[i][j] = v
            /\ Ended(c) =>
                /\ c.pc = WholeDomain.pc
                /\ c.err = WholeDomain.err
                /\ c.pc = "done" => c.result = TileOf(WholeDomain.result, k)

\* both calls have returned forecasts of at least two days that differ
\* between the tiles, from inputs with a nitrate value that is not finite
\* in the second tile only
C30_Witness ==
    /\ \A k \in Tiles : calls[k].pc = "done" /\ Len(calls[k].result) >= 2
    /\ calls[1].result # calls[2].result
    /\ \E d \in 1..Len(calls[2].result) :
          /\ calls[2].result[d][1][1] = NaN
          /\ calls[1].result[d][1][1] # NaN
    /\ \E d \in 1..Len(calls[2].result) : calls[2].result[d][1][1] # NaN

====
